---- MODULE Spec2Model ----
(***************************************************************************)
(* A model of the block-ops rule engine of ComfyUI-bleh (py/nodes/ops.py): *)
(* the sigma -> percent / step lookup of BlehBlockOps.patch, the runtime   *)
(* state dictionary, Condition / Compare / ConditionGroup, Operation.eval, *)
(* Rule / RuleGroup and the five patch call sites plus BlehLatentOps.      *)
(*                                                                         *)
(* Representation.                                                         *)
(*  - A tensor is a non-empty sequence of integers (one spatial axis).     *)
(*    Python's None in a tensor slot is the empty sequence.                *)
(*  - A percent is an integer number of table increments (1/pct_steps).    *)
(*  - A sigma is an integer number of half-microunits (5e-7), so that the  *)
(*    tolerance 1.5e-06 of set_state_step is exactly 3 units.              *)
(*  - The state dictionary is a function whose DOMAIN is its key set; the  *)
(*    CondType keys are the strings "TYPE", "BLOCK", ...                   *)
(*  - An exception is a non-empty string in the field err of a result.     *)
(***************************************************************************)
EXTENDS Integers, Sequences, FiniteSets, TLC

VARIABLES model, sigmasOpt, rules, opIdx, evalLog, call, ret, run

vars == <<model, sigmasOpt, rules, opIdx, evalLog, call, ret, run>>

(***************************************************************************)
(* Bounds of the model.                                                    *)
(***************************************************************************)
NumModels == 2
MaxSched == 3
MaxSigmaQuery == 24
MaxEvals == 2
MaxIdx == 4
MaxBlock == 7

(***************************************************************************)
(* Program constants.                                                      *)
(***************************************************************************)
pct_steps == 400
StepTol == 3

None == <<>>
NoPct == -1
NoErr == ""
Idle == [op |-> "idle"]

Abs(x) == IF x < 0 THEN -x ELSE x

(***************************************************************************)
(* The host's percent_to_sigma: any strictly decreasing function of the    *)
(* percent.  Model m is linear for m = 1 and convex for m > 1.             *)
(***************************************************************************)
Models == 1..NumModels

percent_to_sigma(m, k) ==
    (pct_steps - k) * 10 * m + (m - 1) * (pct_steps - k) * (pct_steps - k)

(* sig2pct[i], 0-based: percent_to_sigma(x / pct_steps) for x = pct_steps   *)
(* down to 0, hence ascending in sigma.                                     *)
sig2pct_len == pct_steps + 1

sig2pct(m, i) == percent_to_sigma(m, pct_steps - i)

(* bisect.bisect_right(sig2pct, sigma) with lo = 0, hi = len(sig2pct).      *)
RECURSIVE bisect_right(_, _, _, _)
bisect_right(m, x, lo, hi) ==
    IF lo < hi
    THEN LET mid == (lo + hi) \div 2
         IN  IF x < sig2pct(m, mid)
             THEN bisect_right(m, x, lo, mid)
             ELSE bisect_right(m, x, mid + 1, hi)
    ELSE lo

(* get_pct(topts): the percent of topts["sigmas"][0], or None.              *)
get_pct(m, sigmas) ==
    LET idx == bisect_right(m, Head(sigmas), 0, sig2pct_len)
    IN  IF idx >= sig2pct_len THEN NoPct ELSE pct_steps - idx

(***************************************************************************)
(* set_state_step(state, sigma).                                           *)
(***************************************************************************)
SchedDiff(sched, sigma, i) == Abs(sched[i + 1] - sigma)

(* Variant of MinDiff: the last entry of the schedule is searched too.      *)
MinDiffAll(sched, sigma) ==
    LET n == Len(sched)
        best == CHOOSE i \in 0..(n - 1) :
                   /\ \A j \in 0..(n - 1) :
                         SchedDiff(sched, sigma, i) <= SchedDiff(sched, sigma, j)
                   /\ \A j \in 0..(i - 1) :
                         SchedDiff(sched, sigma, j) > SchedDiff(sched, sigma, i)
    IN  [sigmadiff |-> SchedDiff(sched, sigma, best), idx |-> best]

(* torch.min(torch.abs(sigmas_opt[:-1] - sigma), 0): the least difference   *)
(* and the index (0-based) of its first occurrence.                         *)
MinDiff(sched, sigma) ==
    LET n == Len(sched) - 1
        best == CHOOSE i \in 0..(n - 1) :
                   /\ \A j \in 0..(n - 1) :
                         SchedDiff(sched, sigma, i) <= SchedDiff(sched, sigma, j)
                   /\ \A j \in 0..(i - 1) :
                         SchedDiff(sched, sigma, j) > SchedDiff(sched, sigma, i)
    IN  [sigmadiff |-> SchedDiff(sched, sigma, best), idx |-> best]

(***************************************************************************)
(* The state dictionary.                                                   *)
(***************************************************************************)
Has(st, k) == k \in DOMAIN st

Put(st, k, v) == [x \in (DOMAIN st) \cup {k} |-> IF x = k THEN v ELSE st[x]]

Del(st, k) == [x \in (DOMAIN st) \ {k} |-> st[x]]

(* state.get("hsp")                                                         *)
GetHsp(st) == IF Has(st, "hsp") THEN st["hsp"] ELSE None

(* Variant of set_state_step: the tolerance is not applied, the nearest     *)
(* entry always counts as an exact step.                                    *)
set_state_step_no_tolerance(sched, state, sigma) ==
    IF sched = None
    THEN [st |-> state, err |-> "NameError"]
    ELSE LET m == MinDiff(sched, sigma)
             idx == m.idx
         IN  IF idx + 2 > Len(sched)
             THEN [st |-> state, err |-> "IndexError"]
             ELSE [st |-> Put(Put(Put(Put(state,
                            "STEP", idx + 1),
                            "STEP_EXACT", idx + 1),
                            "sigma", sched[idx + 1]),
                            "sigma_next", sched[idx + 2]),
                   err |-> NoErr]

(* sigmas_opt[idx + 1] raises IndexError past the end of the schedule.      *)
set_state_step(sched, state, sigma) ==
    IF sched = None
    THEN [st |-> state, err |-> "NameError"]
    ELSE LET m == MinDiff(sched, sigma)
             idx == m.idx
         IN  IF idx + 2 > Len(sched)
             THEN [st |-> state, err |-> "IndexError"]
             ELSE [st |-> Put(Put(Put(Put(state,
                            "STEP", idx + 1),
                            "STEP_EXACT", IF m.sigmadiff > StepTol THEN -1 ELSE idx + 1),
                            "sigma", sched[idx + 1]),
                            "sigma_next", sched[idx + 2]),
                   err |-> NoErr]

(***************************************************************************)
(* Enum lookup, getattr(Enum, name.upper().strip()): the table maps a      *)
(* name as written in a rule document (lower case) to the member; a name   *)
(* outside the table raises AttributeError.                                *)
(***************************************************************************)
OpTypeOf ==
    [slice |-> "SLICE", ffilter |-> "FFILTER", scale_torch |-> "SCALE_TORCH",
     unscale_torch |-> "UNSCALE_TORCH", scale |-> "SCALE", unscale |-> "UNSCALE",
     flip |-> "FLIP", rot90 |-> "ROT90", roll_channels |-> "ROLL_CHANNELS",
     roll |-> "ROLL", target_skip |-> "TARGET_SKIP", multiply |-> "MULTIPLY",
     blend_op |-> "BLEND_OP", mask_example_op |-> "MASK_EXAMPLE_OP",
     antialias |-> "ANTIALIAS", noise |-> "NOISE", debug |-> "DEBUG"]

CondTypeOf ==
    [type |-> "TYPE", block |-> "BLOCK", stage |-> "STAGE",
     from_percent |-> "FROM_PERCENT", to_percent |-> "TO_PERCENT",
     percent |-> "PERCENT", step |-> "STEP", step_exact |-> "STEP_EXACT",
     from_step |-> "FROM_STEP", to_step |-> "TO_STEP",
     step_interval |-> "STEP_INTERVAL", cond |-> "COND"]

CompareTypeOf ==
    [eq |-> "EQ", ne |-> "NE", gt |-> "GT", lt |-> "LT", ge |-> "GE",
     le |-> "LE", not |-> "NOT", or |-> "OR", and |-> "AND"]

VALID_TYPES == {"TYPE", "BLOCK", "STAGE", "PERCENT", "STEP", "STEP_EXACT"}

(***************************************************************************)
(* Rule documents (the parsed YAML).                                       *)
(*   condition  [field, value]    value: the list of values, or for the    *)
(*                                field "cond" a comparison                *)
(*   comparison [op, field, vals, groups]   leaf: field and vals;          *)
(*                                not/and/or: groups, a list of condition  *)
(*                                lists                                    *)
(*   operation  [name, args]      args: [a, blend, subops, mask]           *)
(*   rule       [if, ops, then, else]                                      *)
(***************************************************************************)
RECURSIVE GroupInitRaises(_)
RECURSIVE ConditionGroupInit(_)

(* Compare.__init__ raises                                                  *)
CompareInitRaises(cd) ==
    \/ cd.op \notin DOMAIN CompareTypeOf
    \/ /\ CompareTypeOf[cd.op] \in {"OR", "AND", "NOT"}
       /\ \E i \in 1..Len(cd.groups) : GroupInitRaises(cd.groups[i])
    \/ /\ CompareTypeOf[cd.op] \notin {"OR", "AND", "NOT"}
       /\ \/ cd.field \notin DOMAIN CondTypeOf
          \/ CondTypeOf[cd.field] \notin VALID_TYPES

CompareInit(cd) ==
    IF CompareTypeOf[cd.op] \in {"OR", "AND", "NOT"}
    THEN [typ |-> CompareTypeOf[cd.op], field |-> "",
          value |-> [i \in 1..Len(cd.groups) |-> ConditionGroupInit(cd.groups[i])]]
    ELSE [typ |-> CompareTypeOf[cd.op], field |-> CondTypeOf[cd.field],
          value |-> cd.vals]

(* Condition.__init__                                                       *)
ConditionInitRaises(cd) ==
    \/ cd.field \notin DOMAIN CondTypeOf
    \/ CondTypeOf[cd.field] = "COND" /\ CompareInitRaises(cd.value)

ConditionInit(cd) ==
    IF CondTypeOf[cd.field] # "COND"
    THEN [typ |-> CondTypeOf[cd.field],
          value |-> {cd.value[i] : i \in 1..Len(cd.value)}]
    ELSE [typ |-> "COND", value |-> CompareInit(cd.value)]

(* ConditionGroup.__init__                                                  *)
GroupInitRaises(conds) == \E i \in 1..Len(conds) : ConditionInitRaises(conds[i])

ConditionGroupInit(conds) == [i \in 1..Len(conds) |-> ConditionInit(conds[i])]

(***************************************************************************)
(* Tests.  A test yields [v, err]: its truth value, or the exception       *)
(* (KeyError of a state key that is not bound).                            *)
(***************************************************************************)
Truth(b) == [v |-> b, err |-> NoErr]
Raise(e) == [v |-> FALSE, err |-> e]

(* operator.eq, ne, gt, lt, ge, le                                          *)
opfn(typ, x, y) ==
    CASE typ = "EQ" -> x = y
      [] typ = "NE" -> x # y
      [] typ = "GT" -> x > y
      [] typ = "LT" -> x < y
      [] typ = "GE" -> x >= y
      [] typ = "LE" -> x <= y

RECURSIVE ConditionGroupTestFrom(_, _, _)
RECURSIVE CompareGroupsFrom(_, _, _, _)

(* One element of the all(...) / any(...) over the nested groups of a NOT,  *)
(* AND or OR (r: the test of group i): stop at the first deciding element.  *)
CompareGroupsNext(r, cmp, state, i, typ) ==
    IF r.err # NoErr THEN r
    ELSE IF typ = "NOT" /\ r.v THEN Truth(FALSE)
    ELSE IF typ = "AND" /\ ~r.v THEN Truth(FALSE)
    ELSE IF typ = "OR" /\ r.v THEN Truth(TRUE)
    ELSE CompareGroupsFrom(cmp, state, i + 1, typ)

CompareGroupsFrom(cmp, state, i, typ) ==
    IF i > Len(cmp.value)
    THEN Truth(typ # "OR")
    ELSE CompareGroupsNext(ConditionGroupTestFrom(cmp.value[i], state, 1),
                           cmp, state, i, typ)

(* Variant of CompareTest: a leaf holds when any one value satisfies it.    *)
CompareTestAnyValue(cmp, state) ==
    IF cmp.typ \in {"NOT", "AND", "OR"}
    THEN CompareGroupsFrom(cmp, state, 1, cmp.typ)
    ELSE IF ~Has(state, cmp.field) THEN Raise("KeyError")
         ELSE Truth(\E i \in 1..Len(cmp.value) :
                        opfn(cmp.typ, state[cmp.field], cmp.value[i]))

(* Compare.test                                                             *)
CompareTest(cmp, state) ==
    IF cmp.typ \in {"NOT", "AND", "OR"}
    THEN CompareGroupsFrom(cmp, state, 1, cmp.typ)
    ELSE IF ~Has(state, cmp.field) THEN Raise("KeyError")
         ELSE Truth(\A i \in 1..Len(cmp.value) :
                        opfn(cmp.typ, state[cmp.field], cmp.value[i]))

(* Condition.test                                                           *)
ConditionTest(c, state) ==
    CASE c.typ = "FROM_PERCENT" ->
            IF ~Has(state, "PERCENT") THEN Raise("KeyError")
            ELSE Truth(\A v \in c.value : state["PERCENT"] >= v)
      [] c.typ = "TO_PERCENT" ->
            IF ~Has(state, "PERCENT") THEN Raise("KeyError")
            ELSE Truth(\A v \in c.value : state["PERCENT"] <= v)
      [] c.typ = "FROM_STEP" ->
            IF ~Has(state, "STEP") THEN Raise("KeyError")
            ELSE Truth(state["STEP"] > 0 /\ \A v \in c.value : state["STEP"] >= v)
      [] c.typ = "TO_STEP" ->
            IF ~Has(state, "STEP") THEN Raise("KeyError")
            ELSE Truth(state["STEP"] > 0 /\ \A v \in c.value : state["STEP"] <= v)
      [] c.typ = "STEP_INTERVAL" ->
            IF ~Has(state, "STEP") THEN Raise("KeyError")
            ELSE Truth(state["STEP"] > 0 /\ \A v \in c.value : state["STEP"] % v = 0)
      [] c.typ = "COND" -> CompareTest(c.value, state)
      [] OTHER ->
            IF ~Has(state, c.typ) THEN Raise("KeyError")
            ELSE Truth(state[c.typ] \in c.value)

(* ConditionGroup.test: all(c.test(state) for c in self.conds)              *)
ConditionGroupNext(r, conds, state, i) ==
    IF r.err # NoErr THEN r
    ELSE IF ~r.v THEN Truth(FALSE)
    ELSE ConditionGroupTestFrom(conds, state, i + 1)

ConditionGroupTestFrom(conds, state, i) ==
    IF i > Len(conds)
    THEN Truth(TRUE)
    ELSE ConditionGroupNext(ConditionTest(conds[i], state), conds, state, i)

ConditionGroupTest(conds, state) == ConditionGroupTestFrom(conds, state, 1)

(***************************************************************************)
(* Tensors.                                                                *)
(***************************************************************************)
(* torch.flip along the spatial axis                                        *)
Flip(t) == [i \in 1..Len(t) |-> t[Len(t) + 1 - i]]

(* torch.roll by n                                                          *)
Roll(t, n) == [i \in 1..Len(t) |-> t[((i - 1 - n) % Len(t)) + 1]]

(* out *= factor, the factor a[1] / a[2]                                    *)
Multiply(t, a) == [i \in 1..Len(t) |-> (t[i] * a[1]) \div a[2]]

(* latent_utils.scale_samples to width w (nearest neighbour)                *)
scale_samples(t, w) == [i \in 1..w |-> t[((i - 1) * Len(t)) \div w + 1]]

(* latent_utils.BLENDING_MODES[mode](a, b, t): a * (1 - t) + b * t, the     *)
(* factor t = f[1] / f[2]                                                   *)
BLENDING_MODES(a, b, f) ==
    [i \in 1..Len(a) |-> (a[i] * (f[2] - f[1]) + b[i] * f[1]) \div f[2]]

(* state[tempname] * mask + t * (1 - mask)                                  *)
MaskComposite(temp, t, mask) ==
    [i \in 1..Len(t) |-> temp[i] * mask[i] + t[i] * (1 - mask[i])]

(* The mask example of MASK_EXAMPLE_OP, one row: a column is a scalar       *)
(* [rle |-> FALSE, v] or a run [rle |-> TRUE, n, v] of n times v.           *)
RECURSIVE CompileMaskRow(_, _)
CompileMaskRow(rowdef, i) ==
    IF i > Len(rowdef) THEN <<>>
    ELSE LET col == rowdef[i]
         IN  (IF col.rle THEN [j \in 1..col.n |-> col.v] ELSE <<col.v>>)
                 \o CompileMaskRow(rowdef, i + 1)

(* f"temp{Operation.IDX}"                                                   *)
TempNames == <<"temp0", "temp1", "temp2", "temp3", "temp4", "temp5", "temp6",
               "temp7", "temp8", "temp9", "temp10", "temp11">>

TempName(idx) == TempNames[idx + 1]

(***************************************************************************)
(* Construction of operations and rules.                                   *)
(***************************************************************************)
(* Operation.__init__                                                       *)
(* Variant of OperationInitRaises: a member missing from the enum.          *)
OperationInitRaisesNoRoll(od) ==
    od.name \notin (DOMAIN OpTypeOf) \ {"roll_channels"}

OperationInitRaises(od) == od.name \notin DOMAIN OpTypeOf

OperationInit(od) == [typ |-> OpTypeOf[od.name], args |-> od.args]

RECURSIVE RuleInitRaises(_)
RECURSIVE RuleInit(_)

(* Rule.from_dict of a list of rule objects                                 *)
from_dict_raises(val) == \E i \in 1..Len(val) : RuleInitRaises(val[i])

from_dict(val) == [i \in 1..Len(val) |-> RuleInit(val[i])]

(* Rule.__init__                                                            *)
RuleInitRaises(d) ==
    \/ GroupInitRaises(d.if)
    \/ \E i \in 1..Len(d.ops) : OperationInitRaises(d.ops[i])
    \/ from_dict_raises(d.then)
    \/ from_dict_raises(d.else)

RuleInit(d) ==
    [conds |-> ConditionGroupInit(d.if),
     ops |-> [i \in 1..Len(d.ops) |-> OperationInit(d.ops[i])],
     matched |-> from_dict(d.then),
     nomatched |-> from_dict(d.else)]

(* RuleGroup.from_yaml, after yaml.safe_load                                *)
from_yaml(doc) ==
    IF from_dict_raises(doc)
    THEN [err |-> "ConfigError", rules |-> <<>>]
    ELSE [err |-> NoErr, rules |-> from_dict(doc)]

(***************************************************************************)
(* Evaluation.  A context ctx is [st, err, idx, trace]: the state          *)
(* dictionary, the exception raised so far (NoErr: none), Operation.IDX    *)
(* and the log of what was evaluated.  An evaluation yields [ctx, node]:   *)
(* the context after it and the evaluated object as the evaluation left it *)
(* (blend-style operations write into their argument lists).               *)
(*                                                                         *)
(* Paths name the objects of a rule tree: <<i>> is top-level rule i; below *)
(* a rule at p, p \o <<0, i>> is its operation i, p \o <<1, j>> its        *)
(* matched child j and p \o <<2, j>> its nomatched child j; below an       *)
(* operation at p, p \o <<i>> is entry i of its sub-list.                  *)
(***************************************************************************)
(* A log entry: ev is "rule" (Rule.eval entered; flag: the conditions       *)
(* matched), "then" (target set to "h" on a match), "op" (Operation.eval    *)
(* entered), "done" (Operation.eval returned) or "sub" (an entry of a       *)
(* sub-list taken up; flag: it is a rule object); st is the state at that   *)
(* point and obj the rule, operation or entry concerned.                    *)
Ev(ev, path, flag, st, obj) ==
    [ev |-> ev, path |-> path, flag |-> flag, st |-> st, obj |-> obj]

Log(ctx, e) == [ctx EXCEPT !.trace = Append(@, e)]

Fail(ctx, e) == [ctx EXCEPT !.err = e]

SetTarget(ctx, name) == [ctx EXCEPT !.st = Put(@, "target", name)]

(* state[state["target"]] = out                                             *)
WriteBack(ctx, out) == [ctx EXCEPT !.st = Put(@, @["target"], out)]

Res(ctx, node) == [ctx |-> ctx, node |-> node]

(* case OpType.TARGET_SKIP                                                  *)
(* Variant of TargetSkip: no fallback when hsp is None.                     *)
TargetSkipNoFallback(state, arg) ==
    Put(state, "target", IF arg = 1 THEN "hsp" ELSE "h")

TargetSkip(state, arg) ==
    IF GetHsp(state) = None
    THEN IF state["target"] = "hsp" THEN Put(state, "target", "h") ELSE state
    ELSE Put(state, "target", IF arg = 1 THEN "hsp" ELSE "h")

RECURSIVE OperationEval(_, _, _)
RECURSIVE SubopsFrom(_, _, _, _, _)
RECURSIVE RuleEval(_, _, _)
RECURSIVE RulesFrom(_, _, _, _)
RECURSIVE OpsFrom(_, _, _, _)

(* After subop.eval(state) of entry i (r: its outcome): an exception ends   *)
(* the loop, otherwise the loop goes on.  The nested sub-list of the entry  *)
(* is the list object the definition holds, so what the evaluation wrote    *)
(* into it stays in the definition.                                         *)
SubopsNext(r, items, path, i, tempname) ==
    LET items2 == [items EXCEPT ![i].def.args.subops = r.node.args.subops]
    IN  IF r.ctx.err # NoErr
        THEN Res(r.ctx, items2)
        ELSE SubopsFrom(items2, r.ctx, path, i + 1, tempname)

(* One turn of "for idx in range(len(subops))" from entry i on.  Entries:   *)
(*   [kind |-> "list", def]   an operation definition                      *)
(*   [kind |-> "dict", def]   a rule object                                *)
(*   [kind |-> "rules", def]  what Rule.from_dict left in place of a dict  *)
SubopsFrom(items, ctx, path, i, tempname) ==
    IF i > Len(items) THEN Res(ctx, items)
    ELSE LET e == items[i]
             lctx == Log(ctx, Ev("sub", path \o <<i>>, e.kind = "dict", ctx.st, e))
         IN  CASE e.kind = "dict" ->
                    IF from_dict_raises(<<e.def>>)
                    THEN Res(Fail(lctx, "ConfigError"), items)
                    ELSE Res(Fail(SetTarget(lctx, tempname), "AttributeError(tuple.eval)"),
                             [items EXCEPT ![i] = [kind |-> "rules",
                                                   def |-> from_dict(<<e.def>>)]])
               [] e.kind = "rules" ->
                    Res(Fail(lctx, "AttributeError(Rule.upper)"), items)
               [] e.kind = "list" ->
                    IF OperationInitRaises(e.def)
                    THEN Res(Fail(lctx, "ConfigError"), items)
                    ELSE SubopsNext(OperationEval(OperationInit(e.def),
                                                  SetTarget(lctx, tempname),
                                                  path \o <<i>>),
                                    items, path, i, tempname)

(* Variant of ScratchDone: the target is not set back to old_target.        *)
ScratchDoneKeepsTarget(r, op, tempname, old_target) ==
    [ctx |-> r.ctx,
     node |-> [op EXCEPT !.args.subops = r.node],
     tempname |-> tempname]

(* Variant of ScratchDone: the sub-list is used up by the loop.             *)
ScratchDoneConsumes(r, op, tempname, old_target) ==
    [ctx |-> IF r.ctx.err # NoErr THEN r.ctx ELSE SetTarget(r.ctx, old_target),
     node |-> [op EXCEPT !.args.subops = <<>>],
     tempname |-> tempname]

(* After the loop over the sub-list (r: its outcome): state["target"] =     *)
(* old_target, unless an exception left the loop.                           *)
ScratchDone(r, op, tempname, old_target) ==
    [ctx |-> IF r.ctx.err # NoErr THEN r.ctx ELSE SetTarget(r.ctx, old_target),
     node |-> [op EXCEPT !.args.subops = r.node],
     tempname |-> tempname]

(* The scratch part shared by BLEND_OP and MASK_EXAMPLE_OP: clone into a    *)
(* fresh slot, run the sub-list, restore the target.                        *)
ScratchRun(op, ctx, path) ==
    ScratchDone(SubopsFrom(op.args.subops,
                           [ctx EXCEPT !.idx = @ + 1,
                                       !.st = Put(@, TempName(ctx.idx),
                                                  ctx.st[ctx.st["target"]])],
                           path, 1, TempName(ctx.idx)),
                op, TempName(ctx.idx), ctx.st["target"])

(* out = BLENDING_MODES[mode](t, state[tempname], blend); del               *)
(* state[tempname]; state[state["target"]] = out                            *)
BlendFinish(r, t, blend) ==
    IF r.ctx.err # NoErr THEN Res(r.ctx, r.node)
    ELSE IF Len(r.ctx.st[r.tempname]) # Len(t)
    THEN Res(Fail(r.ctx, "RuntimeError"), r.node)
    ELSE Res(WriteBack([r.ctx EXCEPT !.st = Del(@, r.tempname)],
                       BLENDING_MODES(t, r.ctx.st[r.tempname], blend)),
             r.node)

(* out = state[tempname] * mask; out += t * (1 - mask); del                 *)
(* state[tempname]; state[state["target"]] = out                            *)
MaskFinish(r, t, mask) ==
    IF r.ctx.err # NoErr THEN Res(r.ctx, r.node)
    ELSE IF Len(r.ctx.st[r.tempname]) # Len(t)
    THEN Res(Fail(r.ctx, "RuntimeError"), r.node)
    ELSE Res(WriteBack([r.ctx EXCEPT !.st = Del(@, r.tempname)],
                       MaskComposite(r.ctx.st[r.tempname], t, mask)),
             r.node)

(* the mask of MASK_EXAMPLE_OP: compiled on first use and kept in self.args *)
MaskOf(maskdef) == IF maskdef.tensor THEN maskdef.val ELSE CompileMaskRow(maskdef.val, 1)

(* Operation.eval: the match statement and the write-back                   *)
OperationBody(op, ctx0, path) ==
    LET ctx == Log(ctx0, Ev("op", path, FALSE, ctx0.st, op))
        state == ctx0.st
        t == ctx0.st[ctx0.st["target"]]
        a == op.args.a
    IN  CASE op.typ = "UNSCALE_TORCH" ->
               IF ~Has(state, "hsp") THEN Res(Fail(ctx, "KeyError"), op)
               ELSE IF state["hsp"] = None THEN Res(Fail(ctx, "ValueError"), op)
               ELSE IF Len(t) = Len(state["hsp"]) THEN Res(ctx, op)
               ELSE Res(WriteBack(ctx, scale_samples(t, Len(state["hsp"]))), op)
          [] op.typ = "FLIP" -> Res(WriteBack(ctx, Flip(t)), op)
          [] op.typ = "ROLL_CHANNELS" -> Res(WriteBack(ctx, Roll(t, a[1])), op)
          [] op.typ = "TARGET_SKIP" ->
               Res([ctx EXCEPT !.st = TargetSkip(state, a[1])], op)
          [] op.typ = "MULTIPLY" -> Res(WriteBack(ctx, Multiply(t, a)), op)
          [] op.typ = "BLEND_OP" ->
               BlendFinish(ScratchRun(op, ctx, path), t, op.args.blend)
          [] op.typ = "MASK_EXAMPLE_OP" ->
               MaskFinish(ScratchRun([op EXCEPT !.args.mask =
                                         [tensor |-> TRUE, val |-> MaskOf(op.args.mask)]],
                                     ctx, path),
                          t, scale_samples(MaskOf(op.args.mask), Len(t)))
          [] op.typ = "DEBUG" -> Res(WriteBack(ctx, t), op)
          (* the remaining members of OpType are tensor arithmetic followed   *)
          (* by the same write-back; no document of this model uses them      *)
          [] OTHER -> Res(WriteBack(ctx, t), op)

(* Operation.eval returned (r: its outcome), unless it raised               *)
OperationDone(r, path) ==
    IF r.ctx.err # NoErr THEN r
    ELSE Res(Log(r.ctx, Ev("done", path, FALSE, r.ctx.st, r.node)), r.node)

(* Operation.eval                                                           *)
OperationEval(op, ctx0, path) == OperationDone(OperationBody(op, ctx0, path), path)

(* for o in self.ops: o.eval(state)                                         *)
OpsNext(r, ops, path, i) == OpsFrom([ops EXCEPT ![i] = r.node], r.ctx, path, i + 1)

OpsFrom(ops, ctx, path, i) ==
    IF i > Len(ops) \/ ctx.err # NoErr THEN Res(ctx, ops)
    ELSE OpsNext(OperationEval(ops[i], ctx, path \o <<0, i>>), ops, path, i)

(* for r in rules: r.eval(state)                                            *)
(* Variant of RulesNext: the loop ends at the first rule that matched.      *)
RulesNextStopAtMatch(r, rs, path, i) ==
    IF \E k \in 1..Len(r.ctx.trace) :
           /\ r.ctx.trace[k].ev = "rule"
           /\ r.ctx.trace[k].path = path \o <<i>>
           /\ r.ctx.trace[k].flag
    THEN Res(r.ctx, [rs EXCEPT ![i] = r.node])
    ELSE RulesFrom([rs EXCEPT ![i] = r.node], r.ctx, path, i + 1)

RulesNext(r, rs, path, i) == RulesFrom([rs EXCEPT ![i] = r.node], r.ctx, path, i + 1)

RulesFrom(rs, ctx, path, i) ==
    IF i > Len(rs) \/ ctx.err # NoErr THEN Res(ctx, rs)
    ELSE RulesNext(RuleEval(rs[i], ctx, path \o <<i>>), rs, path, i)

(* Rule.eval, the branch taken when the conditions do not match             *)
NomatchedDone(n, rule) == Res(n.ctx, [rule EXCEPT !.nomatched = n.node])

(* Variant of NomatchedBranch: the operations run on a mismatch too.        *)
NomatchedBranchRunsOps(rule, ctx, path) ==
    NomatchedDone(RulesFrom(rule.nomatched, OpsFrom(rule.ops, ctx, path, 1).ctx,
                            path \o <<2>>, 1),
                  rule)

NomatchedBranch(rule, ctx, path) ==
    NomatchedDone(RulesFrom(rule.nomatched, ctx, path \o <<2>>, 1), rule)

(* Rule.eval, the branch taken when the conditions match                    *)
MatchedDone(m, rule) == Res(m.ctx, [rule EXCEPT !.matched = m.node])

MatchedChildren(o, rule, path) ==
    MatchedDone(RulesFrom(rule.matched, o.ctx, path \o <<1>>, 1),
                [rule EXCEPT !.ops = o.node])

(* Variant of MatchedBranch: the nomatched children run after a match too.  *)
MatchedBranchAlsoElse(rule, ctx, path) ==
    NomatchedBranch(
        [rule EXCEPT !.ops = OpsFrom(rule.ops,
                                     Log(SetTarget(ctx, "h"),
                                         Ev("then", path, TRUE,
                                            Put(ctx.st, "target", "h"), rule)),
                                     path, 1).node],
        RulesFrom(rule.matched,
                  OpsFrom(rule.ops,
                          Log(SetTarget(ctx, "h"),
                              Ev("then", path, TRUE, Put(ctx.st, "target", "h"), rule)),
                          path, 1).ctx,
                  path \o <<1>>, 1).ctx,
        path)

MatchedBranch(rule, ctx, path) ==
    MatchedChildren(OpsFrom(rule.ops,
                            Log(SetTarget(ctx, "h"),
                                Ev("then", path, TRUE, Put(ctx.st, "target", "h"), rule)),
                            path, 1),
                    rule, path)

(* Rule.eval, c the outcome of self.conds.test(state)                       *)
RuleEvalOn(c, rule, ctx, path) ==
    IF c.err # NoErr
    THEN Res(Fail(Log(ctx, Ev("rule", path, FALSE, ctx.st, rule)), c.err), rule)
    ELSE IF ~c.v
    THEN NomatchedBranch(rule, Log(ctx, Ev("rule", path, FALSE, ctx.st, rule)), path)
    ELSE MatchedBranch(rule, Log(ctx, Ev("rule", path, TRUE, ctx.st, rule)), path)

(* Variant of RuleEval: the rule is evaluated a second time.                *)
RuleEvalTwice(rule, ctx, path) ==
    LET first == RuleEvalOn(ConditionGroupTest(rule.conds, ctx.st), rule, ctx, path)
    IN  RuleEvalOn(ConditionGroupTest(rule.conds, first.ctx.st),
                   first.node, first.ctx, path)

RuleEval(rule, ctx, path) ==
    RuleEvalOn(ConditionGroupTest(rule.conds, ctx.st), rule, ctx, path)

(* RuleGroup.eval                                                           *)
RuleGroupEval(rs, ctx) == RulesFrom(rs, ctx, <<>>, 1)

(***************************************************************************)
(* BlehBlockOps.patch: the call sites.                                     *)
(***************************************************************************)
stages == <<1280, 640, 320>>

(* stages.index(h.shape[1]) + 1 if h.shape[1] in stages else -1             *)
StageOf(ch) ==
    IF \E i \in 1..Len(stages) : stages[i] = ch
    THEN CHOOSE i \in 1..Len(stages) : stages[i] = ch
    ELSE -1

(* topts["sigmas"].max()                                                    *)
SeqMax(s) == CHOOSE x \in {s[i] : i \in 1..Len(s)} : \A i \in 1..Len(s) : s[i] <= x

NoState == [st |-> <<>>, none |-> TRUE, err |-> NoErr]

(* make_state(typ, topts, h, hsp): None, the state, or the exception of     *)
(* set_state_step                                                           *)
make_state(m, sched, typ, topts, h, hsp) ==
    LET pct == get_pct(m, topts.sigmas)
    IN  IF pct = NoPct THEN NoState
        ELSE LET result == [TYPE |-> typ, PERCENT |-> pct, BLOCK |-> topts.block,
                            STAGE |-> StageOf(topts.ch), h |-> h, hsp |-> hsp,
                            target |-> "h"]
                 s == set_state_step(sched, result, SeqMax(topts.sigmas))
             IN  [st |-> s.st, none |-> FALSE, err |-> s.err]

(* the state post_cfg_patch builds itself                                   *)
post_cfg_state(m, sched, args) ==
    LET pct == get_pct(m, args.sigma)
    IN  IF pct = NoPct THEN NoState
        ELSE LET state == [TYPE |-> "post_cfg", PERCENT |-> pct, BLOCK |-> -1,
                           STAGE |-> -1, h |-> args.denoised, hsp |-> None,
                           target |-> "h"]
                 s == set_state_step(sched, state, SeqMax(args.sigma))
             IN  [st |-> s.st, none |-> FALSE, err |-> s.err]

(* What a call hands back.                                                  *)
RetTensor(h) == [kind |-> "tensor", h |-> h, hsp |-> None, err |-> NoErr]
RetPair(h, hsp) == [kind |-> "pair", h |-> h, hsp |-> hsp, err |-> NoErr]
RetNone == [kind |-> "None", h |-> None, hsp |-> None, err |-> NoErr]
RetRaise(e) == [kind |-> "raise", h |-> None, hsp |-> None, err |-> e]

NoRun == [op |-> "none"]

Ctx0(state, idx) == [st |-> state, err |-> NoErr, idx |-> idx, trace |-> <<>>]

(* rules.eval(state) at a call site: the evaluation and its record          *)
RunOf(rs, state, r) ==
    [op |-> "eval", rules0 |-> rs, pre |-> state, post |-> r.ctx.st,
     err |-> r.ctx.err, trace |-> r.ctx.trace, idx0 |-> opIdx]

(* return value of block_patch when make_state gave None                    *)
block_patch_skip(h) == RetTensor(h)

(* return value of output_block_patch when make_state gave None             *)
output_block_patch_skip(h, hsp) == RetTensor(h)

(* return value of post_cfg_patch when get_pct gave None                    *)
post_cfg_patch_skip(args) == RetNone

(* The return of a site after rules.eval(state) (r: its outcome).           *)
SiteReturn(r, pair) ==
    IF r.ctx.err # NoErr THEN RetRaise(r.ctx.err)
    ELSE IF pair THEN RetPair(r.ctx.st["h"], r.ctx.st["hsp"])
    ELSE RetTensor(r.ctx.st["h"])

(* rules.eval(state) at a patched site and what it leaves behind.           *)
SiteEval(r, state, pair) ==
    /\ r.ctx.idx <= MaxIdx
    /\ run' = RunOf(rules.rules, state, r)
    /\ rules' = [rules EXCEPT !.rules = r.node]
    /\ opIdx' = r.ctx.idx
    /\ evalLog' = Append(evalLog, r.ctx.err)
    /\ ret' = SiteReturn(r, pair)

(* What every site does once the state is made: ms is the result of         *)
(* make_state, skip the value returned on None.                             *)
SiteOn(ms, c, skip, pair) ==
    /\ rules.err = NoErr
    /\ Len(evalLog) < MaxEvals
    /\ call' = c
    /\ IF ms.none
       THEN /\ ret' = skip
            /\ run' = NoRun
            /\ UNCHANGED <<rules, opIdx, evalLog>>
       ELSE IF ms.err # NoErr
       THEN /\ ret' = RetRaise(ms.err)
            /\ run' = NoRun
            /\ UNCHANGED <<rules, opIdx, evalLog>>
       ELSE SiteEval(RuleGroupEval(rules.rules, Ctx0(ms.st, opIdx)), ms.st, pair)
    /\ UNCHANGED <<model, sigmasOpt>>

Site(c, ms, skip, pair) == SiteOn(ms, c, skip, pair)

(***************************************************************************)
(* Rule documents of the model.                                            *)
(***************************************************************************)
NoMask == [tensor |-> FALSE, val |-> <<>>]

OpD(name, a) ==
    [name |-> name, args |-> [a |-> a, blend |-> <<1, 1>>, subops |-> <<>>,
                              mask |-> NoMask]]

BlendD(blend, items) ==
    [name |-> "blend_op", args |-> [a |-> <<0, 1>>, blend |-> blend,
                                    subops |-> items, mask |-> NoMask]]

MaskD(row, items) ==
    [name |-> "mask_example_op",
     args |-> [a |-> <<0, 1>>, blend |-> <<1, 1>>, subops |-> items,
               mask |-> [tensor |-> FALSE, val |-> row]]]

L(def) == [kind |-> "list", def |-> def]
D(def) == [kind |-> "dict", def |-> def]

CondD(field, value) == [field |-> field, value |-> value]
CmpLeaf(op, field, vals) == [op |-> op, field |-> field, vals |-> vals, groups |-> <<>>]
CmpGroups(op, groups) == [op |-> op, field |-> "", vals |-> <<>>, groups |-> groups]

RuleD(if, ops, then, else) == [if |-> if, ops |-> ops, then |-> then, else |-> else]

cAlways == <<>>
cBlock3 == <<CondD("block", <<3>>)>>
cTypeOutput == <<CondD("type", <<"output">>)>>
cFromStep2 == <<CondD("from_step", <<2>>)>>
cToPercent == <<CondD("to_percent", <<200>>), CondD("stage", <<2, 3>>)>>
cCmpGt == <<CondD("cond", CmpLeaf("gt", "block", <<3, 5>>))>>
cNotGroup == <<CondD("cond", CmpGroups("not", <<cBlock3, cTypeOutput>>))>>
cBadField == <<CondD("blok", <<3>>)>>
cBadOperator == <<CondD("cond", CmpLeaf("gte", "block", <<3>>))>>
cStepExact2 == <<CondD("step_exact", <<2>>)>>
cStepExactNone == <<CondD("step_exact", <<-1>>)>>
cStepRange == <<CondD("to_step", <<2>>), CondD("step_interval", <<2>>)>>

MulHalf == OpD("multiply", <<1, 2>>)
MulThree == OpD("multiply", <<3, 1>>)
FlipH == OpD("flip", <<3, 0>>)
Roll1 == OpD("roll_channels", <<1, 0>>)
SkipTrue == OpD("target_skip", <<1, 0>>)
SkipFalse == OpD("target_skip", <<0, 0>>)
Unscale == OpD("unscale_torch", <<0, 0>>)
Debug == OpD("debug", <<0, 0>>)
Bogus == OpD("bogus", <<0, 0>>)

LeafRules ==
    << RuleD(cBlock3, <<MulHalf>>, <<>>, <<>>),
       RuleD(cAlways, <<FlipH, Roll1>>, <<>>, <<>>),
       RuleD(cTypeOutput, <<SkipTrue, MulHalf>>, <<>>, <<>>),
       RuleD(cFromStep2, <<BlendD(<<1, 2>>, <<L(MulThree), L(FlipH)>>)>>, <<>>, <<>>),
       RuleD(cBlock3, <<BlendD(<<1, 1>>, <<L(SkipTrue), L(MulHalf)>>), Roll1>>, <<>>, <<>>),
       RuleD(cAlways, <<BlendD(<<1, 2>>,
                  <<L(MulHalf), D(RuleD(cAlways, <<FlipH>>, <<>>, <<>>))>>)>>, <<>>, <<>>),
       RuleD(cBlock3, <<BlendD(<<1, 2>>,
                  <<L(BlendD(<<1, 1>>, <<L(FlipH), L(SkipFalse)>>)), L(Roll1)>>)>>,
             <<>>, <<>>),
       RuleD(cAlways, <<BlendD(<<1, 1>>, <<L(MulHalf), L(Unscale)>>)>>, <<>>, <<>>),
       RuleD(cBlock3, <<BlendD(<<1, 1>>, <<L(MulHalf), L(Bogus)>>)>>, <<>>, <<>>),
       RuleD(cAlways, <<MaskD(<<[rle |-> FALSE, n |-> 1, v |-> 1],
                               [rle |-> TRUE, n |-> 2, v |-> 0]>>,
                             <<L(MulThree)>>)>>, <<>>, <<>>),
       RuleD(cAlways, <<Bogus>>, <<>>, <<>>),
       RuleD(cBadField, <<MulHalf>>, <<>>, <<>>),
       RuleD(cBadOperator, <<MulHalf>>, <<>>, <<>>),
       RuleD(cCmpGt, <<SkipFalse, FlipH>>, <<>>, <<>>),
       RuleD(cToPercent, <<Unscale, Debug>>, <<>>, <<>>),
       RuleD(cTypeOutput, <<BlendD(<<1, 1>>,
                  <<D(RuleD(cAlways, <<Bogus>>, <<>>, <<>>))>>)>>, <<>>, <<>>),
       RuleD(cNotGroup, <<SkipTrue, BlendD(<<1, 2>>,
                  <<L(BlendD(<<1, 1>>,
                        <<D(RuleD(cAlways, <<>>, <<>>, <<>>))>>))>>)>>, <<>>, <<>>),
       RuleD(cFromStep2, <<MulThree>>, <<>>, <<>>),
       RuleD(cStepExact2, <<MulHalf>>, <<>>, <<>>),
       RuleD(cStepExactNone, <<FlipH>>, <<>>, <<>>),
       RuleD(cStepRange, <<MulThree>>, <<>>, <<>>) >>

PairFirst == {1, 2, 5}
Children == {1, 2, 5, 9, 11}
TopConds == <<cBlock3, cAlways>>

(* A document id is <<shape, i, j, k>>.                                     *)
DocIds ==
    {<<"single", i, 0, 0>> : i \in 1..Len(LeafRules)}
    \cup {<<"pair", i, j, 0>> : i \in PairFirst, j \in 1..Len(LeafRules)}
    \cup {<<"nested", c, i, j>> : c \in 1..Len(TopConds), i \in Children, j \in Children}

DocOf(id) ==
    CASE id[1] = "single" -> <<LeafRules[id[2]]>>
      [] id[1] = "pair" -> <<LeafRules[id[2]], LeafRules[id[3]]>>
      [] id[1] = "nested" ->
            <<RuleD(TopConds[id[2]], <<SkipTrue, Roll1>>,
                    <<LeafRules[1], LeafRules[id[3]]>>, <<LeafRules[id[4]], LeafRules[2]>>)>>

(***************************************************************************)
(* Inputs of the call sites.                                               *)
(***************************************************************************)
StepSchedule == <<3000, 1000, 0>>
SigmaInputs == {<<3000>>, <<1000>>, <<1200, 1000>>, <<4000>>}
BlockInputs == {[block |-> 3, ch |-> 640], [block |-> 7, ch |-> 1280]}
HInputs == {<<8, 16, 24>>}
HspInputs == {<<2, 4>>}

(***************************************************************************)
(* Spec: a BlehBlockOps.patch whose rule document compiled (or raised),    *)
(* then any calls of the patched sites and of BlehLatentOps on the same    *)
(* document.                                                               *)
(***************************************************************************)
Init ==
    /\ model = 1
    /\ sigmasOpt \in {None, StepSchedule}
    /\ \E id \in DocIds :
          rules = [id |-> id, doc |-> DocOf(id), err |-> from_yaml(DocOf(id)).err,
                   rules |-> from_yaml(DocOf(id)).rules]
    /\ opIdx = 0
    /\ evalLog = <<>>
    /\ call = Idle
    /\ ret = Idle
    /\ run = NoRun

(* block_patch(typ, h, topts)                                               *)
block_patch(typ) ==
    \E b \in BlockInputs, sg \in SigmaInputs, h \in HInputs :
        LET topts == [sigmas |-> sg, block |-> b.block, ch |-> b.ch]
        IN  Site([op |-> typ, sigmas |-> sg, block |-> b.block, h |-> h, hsp |-> None],
                 make_state(model, sigmasOpt, typ, topts, h, None),
                 block_patch_skip(h), FALSE)

InputBlockPatchAfterSkip == block_patch("input_after_skip")

InputBlockPatch == block_patch("input")

MiddleBlockPatch == block_patch("middle")

(* output_block_patch(h, hsp, transformer_options)                          *)
OutputBlockPatch ==
    \E b \in BlockInputs, sg \in SigmaInputs, h \in HInputs, hsp \in HspInputs :
        LET topts == [sigmas |-> sg, block |-> b.block, ch |-> b.ch]
        IN  Site([op |-> "output", sigmas |-> sg, block |-> b.block, h |-> h, hsp |-> hsp],
                 make_state(model, sigmasOpt, "output", topts, h, hsp),
                 output_block_patch_skip(h, hsp), TRUE)

(* post_cfg_patch(args)                                                     *)
PostCfgPatch ==
    \E sg \in SigmaInputs, h \in HInputs :
        LET args == [sigma |-> sg, denoised |-> h]
        IN  Site([op |-> "post_cfg", sigmas |-> sg, block |-> -1, h |-> h, hsp |-> None],
                 post_cfg_state(model, sigmasOpt, args),
                 post_cfg_patch_skip(args), FALSE)

(* BlehLatentOps.upscale(samples, rules): compiles the document itself and  *)
(* evaluates it once on a state without step keys.                          *)
LatentEval(r, state) ==
    /\ r.ctx.idx <= MaxIdx
    /\ run' = RunOf(r.rules0, state, r)
    /\ opIdx' = r.ctx.idx
    /\ ret' = SiteReturn(r, FALSE)

LatentState(h) ==
    [TYPE |-> "latent", PERCENT |-> 0, BLOCK |-> -1, STAGE |-> -1,
     h |-> h, hsp |-> None, target |-> "h"]

LatentOn(compiled, h) ==
    /\ call' = [op |-> "latent", sigmas |-> <<>>, block |-> -1, h |-> h, hsp |-> None]
    /\ IF compiled.err # NoErr
       THEN /\ ret' = RetRaise(compiled.err)
            /\ run' = NoRun
            /\ opIdx' = opIdx
       ELSE LatentEval([rules0 |-> compiled.rules] @@
                           RuleGroupEval(compiled.rules, Ctx0(LatentState(h), opIdx)),
                       LatentState(h))
    /\ UNCHANGED <<model, sigmasOpt, rules, evalLog>>

LatentUpscale == \E h \in HInputs : LatentOn(from_yaml(rules.doc), h)

Next ==
    \/ InputBlockPatchAfterSkip
    \/ InputBlockPatch
    \/ MiddleBlockPatch
    \/ OutputBlockPatch
    \/ PostCfgPatch
    \/ LatentUpscale

Spec == Init /\ [][Next]_vars

(***************************************************************************)
(* SpecPct: the percent lookup on its own.  The query is the sigma of a    *)
(* table percent k, moved by d units.                                      *)
(***************************************************************************)
SigmaOffsets == {-1, 0, 1}

InitPct ==
    /\ model \in Models
    /\ sigmasOpt = None
    /\ rules = [id |-> <<>>, doc |-> <<>>, err |-> NoErr, rules |-> <<>>]
    /\ opIdx = 0
    /\ evalLog = <<>>
    /\ call = Idle
    /\ ret = Idle
    /\ run = Idle

GetPctCall ==
    \E k \in 0..pct_steps, d \in SigmaOffsets :
        LET sigmas == <<percent_to_sigma(model, k) + d>>
        IN  /\ call' = [op |-> "get_pct", k |-> k, d |-> d, sigmas |-> sigmas]
            /\ ret' = [op |-> "get_pct", pct |-> get_pct(model, sigmas)]
            /\ UNCHANGED <<model, sigmasOpt, rules, opIdx, evalLog, run>>

NextPct == GetPctCall

SpecPct == InitPct /\ [][NextPct]_vars

(***************************************************************************)
(* SpecStep: set_state_step on its own, for every schedule of 2..MaxSched  *)
(* entries over SchedVals and every query sigma of 0..MaxSigmaQuery.       *)
(***************************************************************************)
SchedVals == {0, 2, 10, 20, 21}

Descending(s) == \A i \in 1..(Len(s) - 1) : s[i] > s[i + 1]

Schedules == {s \in UNION {[1..n -> SchedVals] : n \in 2..MaxSched} : Descending(s)}

InitStep ==
    /\ model = 1
    /\ sigmasOpt \in Schedules
    /\ rules = [id |-> <<>>, doc |-> <<>>, err |-> NoErr, rules |-> <<>>]
    /\ opIdx = 0
    /\ evalLog = <<>>
    /\ call = Idle
    /\ ret = Idle
    /\ run = Idle

SetStateStepCall ==
    \E sigma \in 0..MaxSigmaQuery :
        LET r == set_state_step(sigmasOpt, [target |-> "h"], sigma)
        IN  /\ call' = [op |-> "set_state_step", sigma |-> sigma]
            /\ ret' = [op |-> "set_state_step", st |-> r.st, err |-> r.err]
            /\ UNCHANGED <<model, sigmasOpt, rules, opIdx, evalLog, run>>

NextStep == SetStateStepCall

SpecStep == InitStep /\ [][NextStep]_vars

(***************************************************************************)
(* SpecCmp: Compare on its own.  A comparison is built from a definition   *)
(* (a leaf with one or two values, or NOT / AND / OR over up to two nested *)
(* condition groups) and tested on states of every block 0..MaxBlock and   *)
(* stage 1..2.                                                             *)
(***************************************************************************)
CmpVals == {3, 5}
RelNames == {"eq", "ne", "gt", "lt", "ge", "le"}
GroupNames == {"not", "and", "or"}
CmpGroupIds == 1..4

(* The nested condition groups a composite comparison is built over.       *)
CmpGroupOf(g) ==
    CASE g = 1 -> cBlock3
      [] g = 2 -> <<CondD("block", <<3, 5>>), CondD("stage", <<2>>)>>
      [] g = 3 -> cAlways
      [] g = 4 -> cCmpGt

(* A comparison id is <<"leaf", op, v1, v2>> (v2 = 0: one value) or        *)
(* <<"groups", op, g1, g2>> (0: no such group).                            *)
CmpIds ==
    {<<"leaf", op, a, b>> : op \in RelNames, a \in CmpVals, b \in CmpVals \cup {0}}
    \cup {<<"groups", op, g1, g2>> : op \in GroupNames,
                                     g1 \in CmpGroupIds \cup {0},
                                     g2 \in CmpGroupIds \cup {0}}

CmpOf(id) ==
    IF id[1] = "leaf"
    THEN CmpLeaf(id[2], "block", IF id[4] = 0 THEN <<id[3]>> ELSE <<id[3], id[4]>>)
    ELSE CmpGroups(id[2],
                   (IF id[3] = 0 THEN <<>> ELSE <<CmpGroupOf(id[3])>>)
                       \o (IF id[4] = 0 THEN <<>> ELSE <<CmpGroupOf(id[4])>>))

CmpState(block, stage) ==
    [TYPE |-> "middle", PERCENT |-> 0, BLOCK |-> block, STAGE |-> stage,
     STEP |-> 1, STEP_EXACT |-> 1, h |-> <<8>>, hsp |-> None, target |-> "h"]

InitCmp ==
    /\ model = 1
    /\ sigmasOpt = None
    /\ \E id \in CmpIds :
          rules = [id |-> id, doc |-> CmpOf(id), err |-> NoErr,
                   rules |-> CompareInit(CmpOf(id))]
    /\ opIdx = 0
    /\ evalLog = <<>>
    /\ call = Idle
    /\ ret = Idle
    /\ run = Idle

CompareTestCall ==
    \E block \in 0..MaxBlock, stage \in 1..2 :
        LET r == CompareTest(rules.rules, CmpState(block, stage))
        IN  /\ call' = [op |-> "compare", block |-> block, stage |-> stage]
            /\ ret' = [op |-> "compare", v |-> r.v, err |-> r.err]
            /\ UNCHANGED <<model, sigmasOpt, rules, opIdx, evalLog, run>>

NextCmp == CompareTestCall

SpecCmp == InitCmp /\ [][NextCmp]_vars

(***************************************************************************)
(* Reading the record of an evaluation.                                    *)
(***************************************************************************)
IsRun == run.op = "eval"

PatchSites == {"input", "input_after_skip", "middle", "output", "post_cfg"}

IsPrefix(s, t) == Len(s) <= Len(t) /\ \A i \in 1..Len(s) : s[i] = t[i]

PathsOf(evs) == [i \in 1..Len(evs) |-> evs[i].path]

Extends(q, p) == Len(q) > Len(p) /\ SubSeq(q, 1, Len(p)) = p

(* The operations and child rules of the rule at path p, in the order in    *)
(* which the evaluation entered them.                                       *)
DirectOf(trace, p) ==
    LET Member(e) ==
            /\ Len(e.path) = Len(p) + 2
            /\ Extends(e.path, p)
            /\ \/ e.ev = "op" /\ e.path[Len(p) + 1] = 0
               \/ e.ev = "rule" /\ e.path[Len(p) + 1] \in {1, 2}
    IN  PathsOf(SelectSeq(trace, Member))

(* What Rule.eval is to enter below the rule r at p.                        *)
ExpectedOf(r, matched, p) ==
    IF matched
    THEN [i \in 1..Len(r.ops) |-> p \o <<0, i>>]
             \o [j \in 1..Len(r.matched) |-> p \o <<1, j>>]
    ELSE [j \in 1..Len(r.nomatched) |-> p \o <<2, j>>]

TopRuleEvents(trace) ==
    LET IsTop(e) == e.ev = "rule" /\ Len(e.path) = 1
    IN  SelectSeq(trace, IsTop)

(***************************************************************************)
(* C1.  Rule.eval: on a match the target is set to "h", then the rule's    *)
(* operations are evaluated in declared order, then every rule of matched  *)
(* in order, and no rule of nomatched; on a mismatch no operation and no   *)
(* rule of matched is evaluated and every rule of nomatched is, in order.  *)
(* (An exception ends the evaluation where it is raised.)                  *)
(***************************************************************************)
C1_RuleEvalBranches ==
    IsRun =>
        \A k \in 1..Len(run.trace) :
            run.trace[k].ev = "rule" =>
                LET e == run.trace[k]
                    test == ConditionGroupTest(e.obj.conds, e.st)
                    direct == DirectOf(run.trace, e.path)
                    expected == ExpectedOf(e.obj, e.flag, e.path)
                IN  /\ test.err = NoErr => e.flag = test.v
                    /\ IsPrefix(direct, expected)
                    /\ run.err = NoErr => direct = expected
                    /\ e.flag =>
                          /\ k < Len(run.trace)
                          /\ run.trace[k + 1].ev = "then"
                          /\ run.trace[k + 1].path = e.path
                          /\ run.trace[k + 1].st = Put(e.st, "target", "h")
                    /\ ~e.flag =>
                          \A j \in 1..Len(run.trace) :
                              ~(run.trace[j].ev = "then" /\ run.trace[j].path = e.path)

C1_Witness ==
    /\ IsRun
    /\ run.err = NoErr
    /\ \E k \in 1..Len(run.trace) :
          /\ run.trace[k].ev = "rule"
          /\ run.trace[k].flag
          /\ Len(run.trace[k].obj.ops) >= 2
          /\ Len(run.trace[k].obj.matched) >= 1
          /\ Len(run.trace[k].obj.nomatched) >= 1
    /\ \E k \in 1..Len(run.trace) :
          /\ run.trace[k].ev = "rule"
          /\ ~run.trace[k].flag
          /\ Len(run.trace[k].obj.ops) >= 1

C1_WitnessTargetReset ==
    /\ IsRun
    /\ \E k \in 1..(Len(run.trace) - 1) :
          /\ run.trace[k].ev = "rule"
          /\ run.trace[k].flag
          /\ run.trace[k].st["target"] = "hsp"
          /\ run.trace[k + 1].st["target"] = "h"

(***************************************************************************)
(* C2.  RuleGroup.eval evaluates its top-level rules in declared order,    *)
(* each once and whatever the earlier rules did; rule i sees the state as  *)
(* rules before it left it, and the state handed back is the state after   *)
(* the last rule.                                                          *)
(***************************************************************************)
C2_RuleGroupOrder ==
    IsRun =>
        LET tops == TopRuleEvents(run.trace)
            n == Len(run.rules0)
        IN  /\ IsPrefix(PathsOf(tops), [i \in 1..n |-> <<i>>])
            /\ run.err = NoErr => Len(tops) = n
            /\ \A i \in 1..Len(tops) :
                  /\ tops[i].obj = run.rules0[i]
                  /\ tops[i].st =
                        RuleGroupEval(SubSeq(run.rules0, 1, i - 1),
                                      Ctx0(run.pre, run.idx0)).ctx.st
            /\ run.err = NoErr =>
                  /\ ret.h = run.post["h"]
                  /\ ret.kind = "pair" => ret.hsp = run.post["hsp"]

C2_Witness ==
    /\ IsRun
    /\ run.err = NoErr
    /\ Len(run.rules0) = 2
    /\ LET tops == TopRuleEvents(run.trace)
       IN  /\ Len(tops) = 2
           /\ ~tops[1].flag
           /\ tops[2].flag
    /\ run.post["h"] # run.pre["h"]

C2_WitnessSeesEarlier ==
    /\ IsRun
    /\ run.err = NoErr
    /\ LET tops == TopRuleEvents(run.trace)
       IN  /\ Len(tops) = 2
           /\ tops[1].flag
           /\ tops[2].st["h"] # run.pre["h"]
           /\ run.post["h"] # tops[2].st["h"]

(***************************************************************************)
(* C3.  When the percent lookup fails, every call site skips the rules and *)
(* hands back what it was given: the tensor h at the input, middle and     *)
(* post_cfg sites, the pair (h, hsp) at the output site.                   *)
(***************************************************************************)
LookupFails == call.op \in PatchSites /\ get_pct(model, call.sigmas) = NoPct

C3_SkipHandsBackInputs ==
    LookupFails =>
        /\ run.op = "none"
        /\ IF call.op = "output"
           THEN ret.kind = "pair" /\ ret.h = call.h /\ ret.hsp = call.hsp
           ELSE ret.kind = "tensor" /\ ret.h = call.h

(***************************************************************************)
(* C4.  In a blend-style operation every entry of the sub-list, operation  *)
(* definition or rule object, is evaluated with target bound to the        *)
(* scratch slot: a rule-object entry completes without error, operations   *)
(* below the blend run on a scratch slot, and the slot the blend was       *)
(* applied to keeps its tensor until the blend writes the result back.     *)
(***************************************************************************)
IsBlendStyle(e) == e.ev = "op" /\ e.obj.typ \in {"BLEND_OP", "MASK_EXAMPLE_OP"}

C4_SubEntriesOnScratch ==
    IsRun =>
        /\ \A k \in 1..Len(run.trace) :
              (run.trace[k].ev = "sub" /\ run.trace[k].flag) =>
                  ~(k = Len(run.trace) /\ run.err # NoErr)
        /\ \A k \in 1..Len(run.trace) :
              IsBlendStyle(run.trace[k]) =>
                  \A j \in (k + 1)..Len(run.trace) :
                      Extends(run.trace[j].path, run.trace[k].path) =>
                          LET tgt == run.trace[k].st["target"]
                          IN  /\ run.trace[j].st[tgt] = run.trace[k].st[tgt]
                              /\ run.trace[j].ev = "op" =>
                                    run.trace[j].st["target"] \notin {"h", "hsp"}

(***************************************************************************)
(* C7 as stated: after TARGET_SKIP in a state without companion tensor     *)
(* target is "h" whatever it was before; with hsp present it is "hsp" for  *)
(* a true argument and "h" otherwise; no other entry of the state changes. *)
(***************************************************************************)
IsTargetSkip(e) == e.ev = "op" /\ e.obj.typ = "TARGET_SKIP"

SameBut(s1, s0, key) ==
    /\ DOMAIN s1 = DOMAIN s0
    /\ \A x \in DOMAIN s0 : x # key => s1[x] = s0[x]

C7_SkipForcesH ==
    IsRun =>
        \A k \in 1..(Len(run.trace) - 1) :
            IsTargetSkip(run.trace[k]) =>
                LET s0 == run.trace[k].st
                    s1 == run.trace[k + 1].st
                IN  /\ SameBut(s1, s0, "target")
                    /\ IF GetHsp(s0) = None
                       THEN s1["target"] = "h"
                       ELSE s1["target"] =
                                (IF run.trace[k].obj.args.a[1] = 1 THEN "hsp" ELSE "h")

(***************************************************************************)
(* C7 amended: without companion tensor TARGET_SKIP leaves target as it    *)
(* is when it names "h" or a scratch slot (and moves it to "h" only from   *)
(* "hsp"), so at the operation list of a rule target is "h" afterwards     *)
(* and inside a blend's sub-list it stays the scratch slot; with hsp       *)
(* present target becomes "hsp" for a true argument and "h" otherwise.     *)
(* TARGET_SKIP writes no other entry of the state and does not raise.      *)
(***************************************************************************)
C7_SkipKeepsScratch ==
    IsRun =>
        \A k \in 1..Len(run.trace) :
            IsTargetSkip(run.trace[k]) =>
                /\ k < Len(run.trace)
                /\ run.trace[k + 1].ev = "done"
                /\ run.trace[k + 1].path = run.trace[k].path
                /\ LET s0 == run.trace[k].st
                       s1 == run.trace[k + 1].st
                   IN  /\ SameBut(s1, s0, "target")
                       /\ IF GetHsp(s0) = None
                          THEN /\ s1["target"] = s0["target"]
                               /\ s0["target"] # "hsp"
                               /\ Len(run.trace[k].path) = 3 => s1["target"] = "h"
                          ELSE s1["target"] =
                                   (IF run.trace[k].obj.args.a[1] = 1 THEN "hsp" ELSE "h")

C7_Witness ==
    /\ IsRun
    /\ \E k \in 1..(Len(run.trace) - 1) :
          /\ IsTargetSkip(run.trace[k])
          /\ run.trace[k].obj.args.a[1] = 1
          /\ GetHsp(run.trace[k].st) = None
          /\ run.trace[k].st["target"] = "temp0"
          /\ run.trace[k + 1].st["target"] = "temp0"

C7_WitnessHsp ==
    /\ IsRun
    /\ \E k \in 1..(Len(run.trace) - 1) :
          /\ IsTargetSkip(run.trace[k])
          /\ GetHsp(run.trace[k].st) # None
          /\ run.trace[k].st["target"] = "h"
          /\ run.trace[k + 1].st["target"] = "hsp"

(***************************************************************************)
(* C8.  The scratch slot of a blend-style operation is removed on every    *)
(* path by which the evaluation ends, an exception included: the state's   *)
(* key set after RuleGroup.eval is the key set it was called with.         *)
(***************************************************************************)
C8_ScratchAlwaysRemoved == IsRun => DOMAIN run.post = DOMAIN run.pre

(***************************************************************************)
(* C9.  When no rule that is evaluated matches, h, hsp and target are      *)
(* after RuleGroup.eval what they were before; the single rule "block in   *)
(* {3}: multiply 0.5" hands back h unchanged for block 7 and h with every  *)
(* element halved for block 3.                                             *)
(***************************************************************************)
NoRuleMatched ==
    \A k \in 1..Len(run.trace) : run.trace[k].ev = "rule" => ~run.trace[k].flag

BlockThreeHalves == rules.id = <<"single", 1, 0, 0>>

C9_NonMatchingIsIdentity ==
    (IsRun /\ run.err = NoErr) =>
        /\ NoRuleMatched =>
              /\ run.post["h"] = run.pre["h"]
              /\ run.post["hsp"] = run.pre["hsp"]
              /\ run.post["target"] = run.pre["target"]
              /\ ret.h = call.h
        /\ (BlockThreeHalves /\ call.op \in PatchSites) =>
              /\ call.block = 7 => ret.h = call.h
              /\ call.block = 3 =>
                    /\ Len(ret.h) = Len(call.h)
                    /\ \A i \in 1..Len(call.h) : 2 * ret.h[i] = call.h[i]

C9_Witness ==
    /\ IsRun
    /\ run.err = NoErr
    /\ BlockThreeHalves
    /\ call.op = "middle"
    /\ call.block = 7
    /\ NoRuleMatched
    /\ ret.h = call.h

C9_WitnessHalved ==
    /\ IsRun
    /\ BlockThreeHalves
    /\ call.block = 3
    /\ ret.h = <<4, 8, 12>>

(***************************************************************************)
(* C10 as stated: a document with an unknown name anywhere raises no       *)
(* later than the first RuleGroup.eval; the first evaluation never         *)
(* succeeds with a later one the first to raise the configuration error.   *)
(***************************************************************************)
C10_NoLateConfigError ==
    ~ /\ Len(evalLog) >= 2
      /\ evalLog[Len(evalLog)] = "ConfigError"
      /\ \A i \in 1..(Len(evalLog) - 1) : evalLog[i] = NoErr

(***************************************************************************)
(* C10 amended: an unknown condition field, comparison operator or         *)
(* operation name in the top-level rules or their then / else children     *)
(* makes RuleGroup.from_yaml raise.  In the sub-list of a blend-style      *)
(* operation it raises when an evaluation of that operation takes up the   *)
(* entry, which ends that evaluation; evaluations that do not reach the    *)
(* entry (the rule does not match) raise no configuration error, so the    *)
(* error can come after evaluations that succeeded.                        *)
(***************************************************************************)
EagerBadLeaves == {11, 12, 13}

EagerBad(id) ==
    CASE id[1] = "single" -> id[2] \in EagerBadLeaves
      [] id[1] = "pair" -> id[2] \in EagerBadLeaves \/ id[3] \in EagerBadLeaves
      [] id[1] = "nested" -> id[3] \in EagerBadLeaves \/ id[4] \in EagerBadLeaves

EntryBad(entry) ==
    \/ entry.kind = "list" /\ entry.def.name \notin DOMAIN OpTypeOf
    \/ /\ entry.kind = "dict"
       /\ \E i \in 1..Len(entry.def.ops) : entry.def.ops[i].name \notin DOMAIN OpTypeOf

C10_ConfigErrorWhenReached ==
    /\ (rules.err # NoErr) <=> EagerBad(rules.id)
    /\ IsRun =>
          /\ \A k \in 1..Len(run.trace) :
                (run.trace[k].ev = "sub" /\ EntryBad(run.trace[k].obj)) =>
                    k = Len(run.trace) /\ run.err = "ConfigError"
          /\ run.err = "ConfigError" =>
                /\ run.trace[Len(run.trace)].ev = "sub"
                /\ EntryBad(run.trace[Len(run.trace)].obj)

C10_Witness ==
    /\ evalLog = <<NoErr, "ConfigError">>
    /\ IsRun
    /\ run.trace[Len(run.trace)].ev = "sub"
    /\ run.trace[Len(run.trace)].obj.kind = "list"

(***************************************************************************)
(* C11 as stated: when the query sigma is within tolerance of no schedule  *)
(* entry (step_exact = -1), no rule with a STEP_EXACT condition matches,   *)
(* whatever the condition's value set.                                     *)
(***************************************************************************)
IsRuleEvent(k) == run.trace[k].ev = "rule"

HasCond(r, kind) == \E i \in 1..Len(r.conds) : r.conds[i].typ = kind

C11_ExactNeverMatches ==
    (IsRun /\ call.op \in PatchSites /\ run.pre["STEP_EXACT"] = -1) =>
        \A k \in 1..Len(run.trace) :
            (IsRuleEvent(k) /\ HasCond(run.trace[k].obj, "STEP_EXACT")) =>
                ~run.trace[k].flag

(***************************************************************************)
(* C11 amended: step_exact is -1 exactly when the query sigma is further   *)
(* than the tolerance from every schedule entry but the last; then no      *)
(* STEP_EXACT condition whose value set does not hold -1 matches (one      *)
(* whose value set holds -1 does), while FROM_STEP, TO_STEP and            *)
(* STEP_INTERVAL are tested against the nearest step (step >= 1) and       *)
(* match when it satisfies them.                                           *)
(***************************************************************************)
OffSchedule(sched, sigma) ==
    \A i \in 1..(Len(sched) - 1) : Abs(sched[i] - sigma) > StepTol

StepCondHolds(c, step) ==
    CASE c.typ = "FROM_STEP" -> \A v \in c.value : step >= v
      [] c.typ = "TO_STEP" -> \A v \in c.value : step <= v
      [] c.typ = "STEP_INTERVAL" -> \A v \in c.value : \E q \in 0..step : q * v = step

OnlyStepConds(r) ==
    /\ Len(r.conds) >= 1
    /\ \A i \in 1..Len(r.conds) :
          r.conds[i].typ \in {"FROM_STEP", "TO_STEP", "STEP_INTERVAL"}

C11_ExactStepsNeverMatch ==
    (IsRun /\ call.op \in PatchSites) =>
        /\ OffSchedule(sigmasOpt, SeqMax(call.sigmas)) <=> run.pre["STEP_EXACT"] = -1
        /\ run.pre["STEP"] >= 1
        /\ run.pre["STEP_EXACT"] = -1 =>
              \A k \in 1..Len(run.trace) :
                  IsRuleEvent(k) =>
                      LET r == run.trace[k].obj
                      IN  /\ run.trace[k].st["STEP_EXACT"] = -1
                          /\ \A i \in 1..Len(r.conds) :
                                r.conds[i].typ = "STEP_EXACT" =>
                                    (-1 \notin r.conds[i].value => ~run.trace[k].flag)
                          /\ (Len(r.conds) = 1 /\ r.conds[1].typ = "STEP_EXACT") =>
                                (run.trace[k].flag <=> -1 \in r.conds[1].value)
                          /\ OnlyStepConds(r) =>
                                (run.trace[k].flag <=>
                                    \A i \in 1..Len(r.conds) :
                                        StepCondHolds(r.conds[i], run.trace[k].st["STEP"]))

C11_Witness ==
    /\ IsRun
    /\ call.op = "middle"
    /\ run.pre["STEP_EXACT"] = -1
    /\ run.pre["STEP"] = 2
    /\ \E k \in 1..Len(run.trace) :
          /\ IsRuleEvent(k)
          /\ HasCond(run.trace[k].obj, "STEP_EXACT")
          /\ 2 \in run.trace[k].obj.conds[1].value
          /\ ~run.trace[k].flag

C11_WitnessRange ==
    /\ IsRun
    /\ call.op = "output"
    /\ run.pre["STEP_EXACT"] = -1
    /\ \E k \in 1..Len(run.trace) :
          /\ IsRuleEvent(k)
          /\ HasCond(run.trace[k].obj, "TO_STEP")
          /\ HasCond(run.trace[k].obj, "STEP_INTERVAL")
          /\ run.trace[k].flag

(***************************************************************************)
(* C12.  A leaf Compare with relational operator op, field f and values    *)
(* v1..vn tests true iff op(state[f], vi) holds for every i; with GT and   *)
(* values [3, 5] it is true exactly when the field exceeds 5.  AND holds   *)
(* when every nested group holds, OR when some nested group holds, NOT     *)
(* when no nested group holds.                                             *)
(***************************************************************************)
Relation(name, x, y) ==
    CASE name = "eq" -> x = y
      [] name = "ne" -> ~(x = y)
      [] name = "gt" -> y < x
      [] name = "lt" -> x < y
      [] name = "ge" -> ~(x < y)
      [] name = "le" -> ~(y < x)

(* What the nested group g says of a state with this block and stage.      *)
CmpGroupHolds(g, block, stage) ==
    CASE g = 1 -> block = 3
      [] g = 2 -> (block = 3 \/ block = 5) /\ stage = 2
      [] g = 3 -> TRUE
      [] g = 4 -> block > 5

CmpExpected(id, block, stage) ==
    LET gs == {id[3], id[4]} \ {0}
    IN  CASE id[1] = "leaf" ->
                /\ Relation(id[2], block, id[3])
                /\ id[4] # 0 => Relation(id[2], block, id[4])
          [] id[1] = "groups" /\ id[2] = "and" ->
                \A g \in gs : CmpGroupHolds(g, block, stage)
          [] id[1] = "groups" /\ id[2] = "or" ->
                \E g \in gs : CmpGroupHolds(g, block, stage)
          [] id[1] = "groups" /\ id[2] = "not" ->
                \A g \in gs : ~CmpGroupHolds(g, block, stage)

C12_CompareAllValues ==
    ret.op = "compare" =>
        /\ ret.err = NoErr
        /\ ret.v <=> CmpExpected(rules.id, call.block, call.stage)
        /\ rules.id = <<"leaf", "gt", 3, 5>> => (ret.v <=> call.block > 5)

C12_Witness ==
    /\ ret.op = "compare"
    /\ rules.id = <<"leaf", "gt", 3, 5>>
    /\ call.block = 4
    /\ ~ret.v

C12_WitnessNot ==
    /\ ret.op = "compare"
    /\ rules.id = <<"groups", "not", 1, 4>>
    /\ call.block = 5
    /\ ret.v

(***************************************************************************)
(* C13.  For every operation kind other than TARGET_SKIP, when             *)
(* Operation.eval completes, target names what it named before, the state  *)
(* has the keys it had before, and every entry other than the tensor slot  *)
(* named by target is unchanged.                                           *)
(***************************************************************************)
Completes(k, j) ==
    /\ run.trace[k].ev = "op"
    /\ run.trace[j].ev = "done"
    /\ run.trace[j].path = run.trace[k].path

C13_OperationFrame ==
    IsRun =>
        \A k \in 1..Len(run.trace) :
            (run.trace[k].ev = "op" /\ ~IsTargetSkip(run.trace[k])) =>
                \A j \in (k + 1)..Len(run.trace) :
                    Completes(k, j) =>
                        /\ run.trace[j].st["target"] = run.trace[k].st["target"]
                        /\ SameBut(run.trace[j].st, run.trace[k].st,
                                   run.trace[k].st["target"])

(* A blend at target "h" with hsp present whose sub-list redirects the      *)
(* target: it completes with target "h", hsp as before and h blended.       *)
C13_Witness ==
    /\ IsRun
    /\ \E k \in 1..Len(run.trace) :
          /\ IsBlendStyle(run.trace[k])
          /\ run.trace[k].st["target"] = "h"
          /\ \E j \in (k + 1)..Len(run.trace) :
                /\ Completes(k, j)
                /\ run.trace[j].st["h"] # run.trace[k].st["h"]
                /\ run.trace[j].st["hsp"] = run.trace[k].st["hsp"]
                /\ \E i \in (k + 1)..(j - 1) :
                      /\ IsTargetSkip(run.trace[i])
                      /\ run.trace[i + 1].st["target"] = "hsp"

(***************************************************************************)
(* Comparing a rule tree with the tree as constructed.  With lazy = FALSE  *)
(* the trees are to be the same; with lazy = TRUE a mask definition may    *)
(* have been replaced by its compiled tensor and a rule object in a        *)
(* sub-list by the tuple Rule.from_dict made of it.                        *)
(***************************************************************************)
RECURSIVE SameSubops(_, _, _)
RECURSIVE SameRules(_, _, _)

SameMask(m0, m1, lazy) ==
    IF m1.tensor = m0.tensor
    THEN m1.val = m0.val
    ELSE lazy /\ m1.tensor /\ m1.val = CompileMaskRow(m0.val, 1)

SameEntry(e0, e1, lazy) ==
    IF e1.kind = e0.kind
    THEN IF e0.kind = "list"
         THEN /\ e1.def.name = e0.def.name
              /\ e1.def.args.a = e0.def.args.a
              /\ e1.def.args.blend = e0.def.args.blend
              /\ SameMask(e0.def.args.mask, e1.def.args.mask, FALSE)
              /\ SameSubops(e0.def.args.subops, e1.def.args.subops, lazy)
         ELSE e1.def = e0.def
    ELSE /\ lazy
         /\ e0.kind = "dict"
         /\ e1.kind = "rules"
         /\ e1.def = from_dict(<<e0.def>>)

SameSubops(s0, s1, lazy) ==
    /\ Len(s1) = Len(s0)
    /\ \A i \in 1..Len(s0) : SameEntry(s0[i], s1[i], lazy)

SameOperation(o0, o1, lazy) ==
    /\ o1.typ = o0.typ
    /\ o1.args.a = o0.args.a
    /\ o1.args.blend = o0.args.blend
    /\ SameMask(o0.args.mask, o1.args.mask, lazy /\ o0.typ = "MASK_EXAMPLE_OP")
    /\ SameSubops(o0.args.subops, o1.args.subops, lazy)

SameRules(rs0, rs1, lazy) ==
    /\ Len(rs1) = Len(rs0)
    /\ \A i \in 1..Len(rs0) :
          /\ rs1[i].conds = rs0[i].conds
          /\ Len(rs1[i].ops) = Len(rs0[i].ops)
          /\ \A j \in 1..Len(rs0[i].ops) :
                SameOperation(rs0[i].ops[j], rs1[i].ops[j], lazy)
          /\ SameRules(rs0[i].matched, rs1[i].matched, lazy)
          /\ SameRules(rs0[i].nomatched, rs1[i].nomatched, lazy)

(***************************************************************************)
(* C14 as stated: after any number of evaluations every rule's conditions, *)
(* operations, operation arguments (sub-lists and mask definitions         *)
(* included) and child lists are as they were right after construction.    *)
(***************************************************************************)
C14_TreeNeverChanges ==
    rules.err = NoErr => SameRules(from_yaml(rules.doc).rules, rules.rules, FALSE)

(***************************************************************************)
(* C14 amended: evaluation leaves conditions, the operations' kinds,       *)
(* order and plain arguments, and the child lists as constructed, and      *)
(* writes the tree in two places only: a MASK_EXAMPLE_OP of a rule         *)
(* replaces its mask definition by the compiled mask tensor the first      *)
(* time it is evaluated, and a rule object in the sub-list of a            *)
(* blend-style operation is replaced in place by the compiled rule tuple   *)
(* the first time the loop takes it up.  An evaluation changes the tree    *)
(* exactly when one of the two happens in it.                              *)
(***************************************************************************)
CompilesMask(e) ==
    /\ e.ev = "op"
    /\ e.obj.typ = "MASK_EXAMPLE_OP"
    /\ ~e.obj.args.mask.tensor
    /\ e.st["target"] \in {"h", "hsp"}

CompilesEntry(e) ==
    /\ e.ev = "sub"
    /\ e.flag
    /\ ~from_dict_raises(<<e.obj.def>>)

C14_TreeChangesByLazyCompile ==
    /\ rules.err = NoErr => SameRules(from_yaml(rules.doc).rules, rules.rules, TRUE)
    /\ (IsRun /\ call.op \in PatchSites) =>
          (~SameRules(run.rules0, rules.rules, FALSE) <=>
              \E k \in 1..Len(run.trace) :
                  CompilesMask(run.trace[k]) \/ CompilesEntry(run.trace[k]))

C14_Witness ==
    /\ IsRun
    /\ call.op \in PatchSites
    /\ run.err = NoErr
    /\ \E k \in 1..Len(run.trace) : CompilesMask(run.trace[k])
    /\ ~SameRules(from_yaml(rules.doc).rules, rules.rules, FALSE)
    /\ rules.rules[1].ops[1].args.mask.tensor

C14_WitnessEntry ==
    /\ IsRun
    /\ call.op \in PatchSites
    /\ \E k \in 1..Len(run.trace) : CompilesEntry(run.trace[k])
    /\ ~SameRules(from_yaml(rules.doc).rules, rules.rules, FALSE)

C14_WitnessUnchanged ==
    /\ Len(evalLog) = 2
    /\ evalLog[1] = NoErr
    /\ SameRules(from_yaml(rules.doc).rules, rules.rules, FALSE)
    /\ \E k \in 1..Len(run.trace) : IsBlendStyle(run.trace[k])

(***************************************************************************)
(* C15.  On a finite rule tree and a state on which nothing raises,        *)
(* RuleGroup.eval terminates having evaluated each Rule node on the taken  *)
(* branches exactly once: every top-level rule, the matched children of    *)
(* each rule that matched, the nomatched children of each rule that did    *)
(* not; no node twice and no node off the taken branches.                  *)
(***************************************************************************)
RECURSIVE RuleNodes(_)
RuleNodes(rs) ==
    IF rs = <<>> THEN 0
    ELSE 1 + RuleNodes(Head(rs).matched) + RuleNodes(Head(rs).nomatched)
           + RuleNodes(Tail(rs))

RuleEvents == {k \in 1..Len(run.trace) : IsRuleEvent(k)}

EvaluatedAt(p) == \E k \in RuleEvents : run.trace[k].path = p

(* The rule at p was reached through the branch its parent took.            *)
OnTakenBranch(k) ==
    LET p == run.trace[k].path
        n == Len(p)
    IN  IF n = 1 THEN p[1] \in 1..Len(run.rules0)
        ELSE \E k0 \in RuleEvents :
                 /\ k0 < k
                 /\ run.trace[k0].path = SubSeq(p, 1, n - 2)
                 /\ p[n - 1] = (IF run.trace[k0].flag THEN 1 ELSE 2)
                 /\ p[n] \in 1..Len(IF run.trace[k0].flag
                                     THEN run.trace[k0].obj.matched
                                     ELSE run.trace[k0].obj.nomatched)

C15_EachNodeOnce ==
    (IsRun /\ run.err = NoErr) =>
        /\ \A k1, k2 \in RuleEvents :
              run.trace[k1].path = run.trace[k2].path => k1 = k2
        /\ \A i \in 1..Len(run.rules0) : EvaluatedAt(<<i>>)
        /\ \A k \in RuleEvents :
              LET e == run.trace[k]
              IN  /\ OnTakenBranch(k)
                  /\ \A j \in 1..Len(e.obj.matched) :
                        EvaluatedAt(e.path \o <<1, j>>) <=> e.flag
                  /\ \A j \in 1..Len(e.obj.nomatched) :
                        EvaluatedAt(e.path \o <<2, j>>) <=> ~e.flag
        /\ Cardinality(RuleEvents) <= RuleNodes(run.rules0)

C15_Witness ==
    /\ IsRun
    /\ run.err = NoErr
    /\ RuleNodes(run.rules0) = 5
    /\ Cardinality(RuleEvents) = 3
    /\ \E k \in RuleEvents : Len(run.trace[k].path) = 3 /\ run.trace[k].flag
    /\ \E k \in RuleEvents : Len(run.trace[k].path) = 3 /\ ~run.trace[k].flag

(***************************************************************************)
(* C16.  Without a step schedule (sigmas_opt is None) and with a percent   *)
(* lookup that succeeds, every invocation site completes the state         *)
(* without error, with step = -1 and step_exact = -1, and the rule group   *)
(* is evaluated on that state.                                             *)
(***************************************************************************)
NoScheduleCall ==
    /\ call.op \in PatchSites
    /\ sigmasOpt = None
    /\ get_pct(model, call.sigmas) # NoPct

C16_NoScheduleStepsAbsent ==
    NoScheduleCall =>
        /\ IsRun
        /\ run.pre["STEP"] = -1
        /\ run.pre["STEP_EXACT"] = -1
        /\ ret.err \notin {"NameError"}

(***************************************************************************)
(* C17.  At every site that evaluates rules (the five patched sites and    *)
(* the latent node) the state handed to RuleGroup.eval binds type, block,  *)
(* stage, percent, step, step_exact, target, h and hsp, so that no         *)
(* condition test fails on a missing key.                                  *)
(***************************************************************************)
ConditionKeys == {"TYPE", "BLOCK", "STAGE", "PERCENT", "STEP", "STEP_EXACT"}

C17_StateBindsEveryKey ==
    IsRun =>
        /\ (ConditionKeys \cup {"target", "h", "hsp"}) \subseteq DOMAIN run.pre
        /\ ~(run.err = "KeyError" /\ run.trace[Len(run.trace)].ev = "rule")

(***************************************************************************)
(* C5.  For every table percent k/400, 0 <= k <= 400, the lookup of        *)
(* percent_to_sigma(k/400) returns a percent (not None) that differs from  *)
(* k/400 by at most one increment.                                         *)
(***************************************************************************)
C5_RoundTripAllPercents ==
    (call.op = "get_pct" /\ call.d = 0) =>
        /\ ret.pct # NoPct
        /\ Abs(ret.pct - call.k) <= 1

(***************************************************************************)
(* C6 as stated: a query equal to schedule entry k gives step_exact =      *)
(* step = k+1 for every index k of the schedule, and a query farther than  *)
(* the tolerance from every entry gives step_exact = -1 and step = (index  *)
(* of the nearest entry) + 1.                                              *)
(***************************************************************************)
IsNearest(sched, sigma, i, last) ==
    \A j \in 0..last : SchedDiff(sched, sigma, i) <= SchedDiff(sched, sigma, j)

C6_StepOfEveryEntry ==
    call.op = "set_state_step" =>
        LET n == Len(sigmasOpt)
            s == call.sigma
        IN  /\ ret.err = NoErr
            /\ \A k \in 0..(n - 1) :
                  s = sigmasOpt[k + 1] =>
                      ret.st["STEP_EXACT"] = k + 1 /\ ret.st["STEP"] = k + 1
            /\ (\A j \in 0..(n - 1) : SchedDiff(sigmasOpt, s, j) > StepTol) =>
                  /\ ret.st["STEP_EXACT"] = -1
                  /\ ret.st["STEP"] - 1 \in 0..(n - 1)
                  /\ IsNearest(sigmasOpt, s, ret.st["STEP"] - 1, n - 1)

(***************************************************************************)
(* C6 amended: the last schedule entry is not a step.  A query equal to    *)
(* entry k gives step_exact = step = k+1 for every k of 0..n-2; a query    *)
(* farther than the tolerance from every entry of 0..n-2 gives step_exact  *)
(* = -1 and step = (index of the nearest entry among 0..n-2) + 1; sigma    *)
(* and sigma_next are entries step-1 and step.                             *)
(***************************************************************************)
C6_StepOfEveryEntryButLast ==
    call.op = "set_state_step" =>
        LET n == Len(sigmasOpt)
            s == call.sigma
        IN  /\ ret.err = NoErr
            /\ \A k \in 0..(n - 2) :
                  s = sigmasOpt[k + 1] =>
                      ret.st["STEP_EXACT"] = k + 1 /\ ret.st["STEP"] = k + 1
            /\ (\A j \in 0..(n - 2) : SchedDiff(sigmasOpt, s, j) > StepTol) =>
                  /\ ret.st["STEP_EXACT"] = -1
                  /\ ret.st["STEP"] - 1 \in 0..(n - 2)
                  /\ IsNearest(sigmasOpt, s, ret.st["STEP"] - 1, n - 2)
            /\ ret.st["sigma"] = sigmasOpt[ret.st["STEP"]]
            /\ ret.st["sigma_next"] = sigmasOpt[ret.st["STEP"] + 1]

C6_Witness ==
    /\ call.op = "set_state_step"
    /\ Len(sigmasOpt) = 3
    /\ call.sigma = sigmasOpt[2]
    /\ ret.st["STEP_EXACT"] = 2

C6_WitnessInexact ==
    /\ call.op = "set_state_step"
    /\ \A j \in 0..(Len(sigmasOpt) - 1) : SchedDiff(sigmasOpt, call.sigma, j) > StepTol
    /\ ret.st["STEP_EXACT"] = -1
    /\ ret.st["STEP"] = 2

====
